---- MODULE Spec2Model ----
(***************************************************************************)
(* Model of src/app.py, the Streamlit "Audio Chronograph" script.          *)
(*                                                                         *)
(* The script is re-executed from top to bottom on every widget event.     *)
(* The state that survives a rerun is the widget state (the sidebar        *)
(* parameters and the uploaded file) and st.session_state['history'].      *)
(* One action of the model is one widget event followed by the whole       *)
(* script run it triggers.                                                 *)
(*                                                                         *)
(* Python floats are modelled as binary floating-point numbers             *)
(* m * 2^e with a 15-bit mantissa (16384 <= |m| < 32768, or m = 0),        *)
(* round-to-nearest-even, the exponent range of an IEEE double (a result   *)
(* of magnitude >= 2^1024 overflows) and a positive infinity.  The         *)
(* mantissa is shorter than a double's 53 bits so that every intermediate  *)
(* product fits a 32-bit integer; the operations round, overflow and       *)
(* raise as the Python operations do.                                      *)
(***************************************************************************)
EXTENDS Integers, Sequences, FiniteSets, TLC

----------------------------------------------------------------------------
(* Floating-point arithmetic                                               *)

Abs(n) == IF n < 0 THEN -n ELSE n

Sgn(n) == IF n < 0 THEN -1 ELSE 1

Zero == [inf |-> FALSE, m |-> 0, e |-> 0]

Inf == [inf |-> TRUE, m |-> 1, e |-> 0]

\* A finite result m * 2^e, or infinity when it is beyond the double range.
Fin(m, e) ==
    IF m = 0 THEN Zero
    ELSE IF e + 15 > 1024 THEN Inf
    ELSE [inf |-> FALSE, m |-> m, e |-> e]

RECURSIVE NormUp(_, _)
\* n > 0 below 2^14: shift left (exact).
NormUp(n, e) == IF n >= 16384 THEN Fin(n, e) ELSE NormUp(2 * n, e - 1)

RECURSIVE NormDown(_, _, _)
\* n >= 2^15: shift right keeping a guard bit and a sticky flag, then round
\* to nearest, ties to even.
NormDown(n, e, sticky) ==
    IF n >= 65536
    THEN NormDown(n \div 2, e + 1, sticky \/ (n % 2 = 1))
    ELSE LET q  == n \div 2
             up == (n % 2 = 1) /\ (sticky \/ (q % 2 = 1))
             q1 == IF up THEN q + 1 ELSE q
         IN  IF q1 = 32768 THEN Fin(16384, e + 2) ELSE Fin(q1, e + 1)

\* The float nearest to n * 2^e, for a natural n.
Norm(n, e) ==
    IF n = 0 THEN Zero
    ELSE IF n < 16384 THEN NormUp(n, e)
    ELSE IF n < 32768 THEN Fin(n, e)
    ELSE NormDown(n, e, FALSE)

Neg(a) == [a EXCEPT !.m = -(a.m)]

Signed(s, a) == IF s < 0 THEN Neg(a) ELSE a

RECURSIVE Grow(_, _, _, _)
\* Long division: q is the quotient so far, r the remainder.
Grow(q, r, d, e) ==
    IF q >= 32768
    THEN NormDown(q, e, r # 0)
    ELSE Grow(2 * q + (IF 2 * r >= d THEN 1 ELSE 0), (2 * r) % d, d, e - 1)

\* The float nearest to (n / d) * 2^e, for naturals n and d > 0.
Ratio(n, d, e) ==
    IF n = 0 THEN Zero ELSE Grow(n \div d, n % d, d, e)

\* float(n) for an integer n
FromInt(n) == Signed(Sgn(n), Norm(Abs(n), 0))

\* the float a decimal literal n/d denotes
Lit(n, d) == Ratio(n, d, 0)

\* a * b
Mul(a, b) ==
    IF a.m = 0 \/ b.m = 0 THEN Zero
    ELSE IF a.inf \/ b.inf THEN Signed(Sgn(a.m) * Sgn(b.m), Inf)
    ELSE Signed(Sgn(a.m) * Sgn(b.m), Norm(Abs(a.m) * Abs(b.m), a.e + b.e))

\* a / b, b # 0 and finite
Div(a, b) ==
    IF a.m = 0 THEN Zero
    ELSE IF a.inf THEN Signed(Sgn(a.m) * Sgn(b.m), Inf)
    ELSE Signed(Sgn(a.m) * Sgn(b.m), Ratio(Abs(a.m), Abs(b.m), a.e - b.e))

\* a + b for finite a, b with a.e >= b.e (or one of them zero)
AddAligned(a, b) ==
    LET d == a.e - b.e
    IN  IF d > 15 THEN a
        ELSE LET n == a.m * (2 ^ d) + b.m
             IN  Signed(Sgn(n), Norm(Abs(n), b.e))

\* a + b
Add(a, b) ==
    IF a.inf THEN a
    ELSE IF b.inf THEN b
    ELSE IF a.m = 0 THEN b
    ELSE IF b.m = 0 THEN a
    ELSE IF a.e >= b.e THEN AddAligned(a, b) ELSE AddAligned(b, a)

\* a - b
Sub(a, b) == Add(a, Neg(b))

\* a <= 0
LeZero(a) == a.m <= 0

\* a > 0
GtZero(a) == a.m > 0

\* a < b
Lt(a, b) == Sub(a, b).m < 0

RECURSIVE SqrtSearch(_, _, _)
\* the largest r in lo..hi-1 with r * r <= n, given lo * lo <= n < hi * hi
SqrtSearch(n, lo, hi) ==
    IF hi - lo <= 1 THEN lo
    ELSE LET mid == (lo + hi) \div 2
         IN  IF mid * mid <= n THEN SqrtSearch(n, mid, hi)
             ELSE SqrtSearch(n, lo, mid)

\* math.sqrt(a) for a finite a > 0
Sqrt(a) ==
    LET k == IF (a.e - 14) % 2 = 0 THEN 14 ELSE 15
        n == a.m * (2 ^ k)
        r == SqrtSearch(n, 16384, 32768)
        q == IF n > r * r + r THEN r + 1 ELSE r
    IN  Norm(q, (a.e - k) \div 2)

\* n * ln 2 as a fixed-point number with 14 fraction bits
NLn2(n) == n * 11356 + (n * 34321) \div 65536

RECURSIVE ExpTaylor(_, _, _, _)
\* sum of r^k / k! (14 fraction bits), from the term `term` of index k - 1
ExpTaylor(r, term, k, acc) ==
    IF term = 0 THEN acc
    ELSE ExpTaylor(r, (term * r) \div (16384 * k), k + 1, acc + term)

\* a finite a >= 0 as a fixed-point number with 14 fraction bits, a < 2^11
ToFixed14(a) ==
    IF a.m = 0 THEN 0
    ELSE IF a.e + 14 >= 0 THEN a.m * (2 ^ (a.e + 14))
    ELSE IF a.e + 14 < -16 THEN 0
    ELSE (a.m + (2 ^ (-(a.e + 14))) \div 2) \div (2 ^ (-(a.e + 14)))

\* exp(a) for a finite a >= 0.  The result is Inf exactly when math.exp
\* raises OverflowError (the result does not fit a double).
Exp(a) ==
    IF a.m # 0 /\ a.e + 14 >= 11 THEN Inf
    ELSE LET x  == ToFixed14(a)
             n0 == x \div 11357
             n  == IF NLn2(n0 + 1) <= x THEN n0 + 1 ELSE n0
             r  == x - NLn2(n)
         IN  Norm(ExpTaylor(r, 16384, 1, 0), n - 14)

\* math.exp(a) raises OverflowError
ExpRaises(a) == Exp(a).inf

\* a ** 2 raises OverflowError: float.__pow__ raises when a finite base
\* gives a result out of range (an infinite base gives inf and no error)
PowRaises(a) == ~a.inf /\ Mul(a, a).inf

\* a ** 2
Pow2(a) == Mul(a, a)

\* round(a, nd) with p = 10^nd, nd in {1, 2}: the float nearest to the
\* decimal with nd digits nearest to a (ties to even)
Round(a, p) ==
    IF a.inf \/ a.m = 0 \/ a.e >= 0 THEN a
    ELSE IF -(a.e) > 24 THEN Zero
    ELSE LET num == Abs(a.m) * p
             den == 2 ^ (-(a.e))
             q   == num \div den
             rem == num % den
             n   == IF 2 * rem > den \/ (2 * rem = den /\ q % 2 = 1)
                    THEN q + 1 ELSE q
         IN  Signed(Sgn(a.m), Ratio(n, p, 0))

----------------------------------------------------------------------------
(* calculate_physics                                                       *)

rho == Lit(1225, 1000)

Cd == Lit(47, 100)

radius == Lit(3, 1000)

\* math.pi
Pi == Lit(355, 113)

area == Mul(Pi, Pow2(radius))

\* k = 0.5 * rho * Cd * area
DragK == Mul(Mul(Mul(Lit(1, 2), rho), Cd), area)

FpsPerMs == Lit(328084, 100000)

\* v_s = 331.4 * math.sqrt(1 + t_env / 273.15)
SpeedOfSound(t_env) ==
    Mul(Lit(3314, 10), Sqrt(Add(FromInt(1), Div(t_env, Lit(27315, 100)))))

\* a sign slip in line 28: the sound's return time added, not subtracted
FlightTimeSum(dt_total, s, t_env) == Add(dt_total, Div(s, SpeedOfSound(t_env)))

\* t_flight = dt_total - s / v_s
FlightTime(dt_total, s, t_env) == Sub(dt_total, Div(s, SpeedOfSound(t_env)))

Sentinel == [v0 |-> Zero, joules |-> Zero, v_avg |-> Zero]

\* the guard of line 30 left out
NoFlightNever(t_flight) == FALSE

\* the guard of line 30
NoFlight(t_flight) == LeZero(t_flight)

\* m = mass_gram / 1000
MassKg(mass_gram) == Div(mass_gram, FromInt(1000))

\* k * s / m, the argument of math.exp
DragExponent(s, m) == Div(Mul(DragK, s), m)

\* line 39 with the flight time multiplied in, not divided out
MuzzleMsTimes(s, m, t_flight) ==
    Mul(Mul(m, Sub(Exp(DragExponent(s, m)), FromInt(1))), Mul(DragK, t_flight))

\* v0_m_s = (m * (math.exp(k * s / m) - 1)) / (k * t_flight)
MuzzleMs(s, m, t_flight) ==
    Div(Mul(m, Sub(Exp(DragExponent(s, m)), FromInt(1))), Mul(DragK, t_flight))

\* the try block raises OverflowError: in math.exp, or in v0_m_s ** 2.
\* The float products and quotients of the block do not raise: they give
\* inf.
Raises(s, m, t_flight) ==
    ExpRaises(DragExponent(s, m)) \/ PowRaises(MuzzleMs(s, m, t_flight))

\* lines 39-48, the values the try block returns
Computed(s, m, t_flight, v0_m_s) ==
    [v0     |-> Mul(v0_m_s, FpsPerMs),
     joules |-> Mul(Mul(Lit(1, 2), m), Pow2(v0_m_s)),
     v_avg  |-> Mul(Div(s, t_flight), FpsPerMs)]

\* calculate_physics(dt_total, s, t_env, mass_gram)
calculate_physics(dt_total, s, t_env, mass_gram) ==
    CHOOSE res \in
      {IF NoFlight(t_flight) THEN Sentinel
       ELSE IF Raises(s, m, t_flight) THEN Sentinel
       ELSE Computed(s, m, t_flight, MuzzleMs(s, m, t_flight)) :
         m \in {MassKg(mass_gram)},
         t_flight \in {FlightTime(dt_total, s, t_env)}} : TRUE

----------------------------------------------------------------------------
(* Inputs                                                                  *)

\* librosa.load resamples to 22050 Hz; onset frames are 512 samples apart
SampleRate == 22050

HopLength == 512

\* onset_detect(..., wait=25): after a peak the picker skips 25 frames, so
\* two onsets are more than 25 frames apart
wait == 25

\* the longest history the model builds
MaxHistory == 2

\* the onset frames librosa detects in a recording
SpacedOnsets(on) ==
    \A i \in 1..Len(on) : on[i] >= 0 /\ (i > 1 => on[i] - on[i - 1] > wait)

\* number_input(min_value=1.0): distances, in half metres
LegalDist(d) == d >= 2

\* selectbox([0.12, 0.20, 0.25, 0.28, 0.30]): masses, in centigrams
MassChoices == {12, 20, 25, 28, 30}

\* slider(10, 40): temperatures in degrees Celsius
LegalTemp(t) == t \in 10..40

\* the recordings, distances, masses and temperatures of the session model
Recordings == {<<>>, <<10>>, <<4, 30>>, <<4, 50>>, <<4, 30, 60, 90>>}

Dists == {20, 500}

Masses == {20, 30}

Temps == {28}

\* datetime.now().strftime("%H:%M:%S")
Clock == {"12:00:00"}

\* the inputs of the solver model
SolverRecordings ==
    {<<>>, <<10>>, <<0, 26>>, <<0, 27>>, <<0, 31>>, <<4, 50>>, <<0, 100>>,
     <<0, 1335>>, <<0, 1378>>, <<0, 4000>>, <<4, 30, 60, 90>>}

SolverDists == {2, 20, 419, 500, 20920, 60000}

SolverTemps == {10, 28, 40}

AllRecordings == Recordings \cup SolverRecordings

AllDists == Dists \cup SolverDists

AllTemps == Temps \cup SolverTemps

----------------------------------------------------------------------------
(* The script                                                              *)

VARIABLES
    session_state,  \* st.session_state: a function from keys to values
    uploaded_file,  \* the file uploader's value
    dist,           \* sidebar: distance to the target, in half metres
    massa,          \* sidebar: BB mass, in centigrams
    suhu,           \* sidebar: temperature, in degrees Celsius
    out,            \* what the last script run computed and rendered
    pressed         \* the button pressed in the last script run, if any

vars == <<session_state, uploaded_file, dist, massa, suhu, out, pressed>>

NoFile == [present |-> FALSE, onsets |-> <<>>]

File(on) == [present |-> TRUE, onsets |-> on]

\* the sidebar values as the floats the script receives
DistM(d) == Ratio(d, 2, 0)

MassG(m) == Lit(m, 100)

\* librosa.frames_to_time(onsets, sr=sr)
frames_to_time(on) == [i \in 1..Len(on) |-> Ratio(on[i] * HopLength, SampleRate, 0)]

\* every positional pair (events[0], events[1]), (events[2], events[3]), ...
\* of the onset times, a trailing unpaired event dropped
RECURSIVE PositionalPairs(_)
PositionalPairs(times) ==
    IF Len(times) < 2 THEN <<>>
    ELSE << <<times[1], times[2]>> >> \o PositionalPairs(Tail(Tail(times)))

\* the shot/impact pairs the script takes from the onset times: the first
\* two onsets when there are at least two, and nothing otherwise
ShotPairs(times) ==
    IF Len(times) >= 2 THEN << <<times[1], times[2]>> >> ELSE <<>>

\* every argument tuple the script can pass to calculate_physics
SolverArgs ==
    {<<Sub(frames_to_time(r)[2], frames_to_time(r)[1]), DistM(d), FromInt(t), MassG(m)>> :
        r \in {x \in AllRecordings : Len(x) >= 2},
        d \in AllDists, t \in AllTemps, m \in MassChoices}

\* calculate_physics tabulated over SolverArgs, so that each call is
\* evaluated once
PhysicsTable ==
    [a \in SolverArgs |-> calculate_physics(a[1], a[2], a[3], a[4])]

\* the call of line 88
Solve(dt_total, s, t_env, mass_gram) ==
    PhysicsTable[<<dt_total, s, t_env, mass_gram>>]

\* lines 53-54 without the guard: the history is reset by every run
EnsureHistoryReset(ss) == [history |-> <<>>]

\* lines 53-54: the history is created empty when the session has none
EnsureHistory(ss) ==
    IF "history" \in DOMAIN ss THEN ss ELSE [history |-> <<>>]

\* lines 113-121: the row the save button appends
HistoryRow(now, d, m, res) ==
    [Waktu  |-> now,
     Jarak  |-> d,
     BB     |-> m,
     v0     |-> Round(res.v0, 10),
     Energy |-> Round(res.joules, 100),
     v_avg  |-> Round(res.v_avg, 10)]

\* the clear button dropping the oldest row only
PoppedHistory(h) == Tail(h)

\* line 150: the clear button's assignment
ClearedHistory(h) == <<>>

Blank(status) ==
    [status |-> status, pairs |-> <<>>, dt_total |-> Zero,
     v0 |-> Zero, energy |-> Zero, v_avg |-> Zero, saved |-> FALSE]

\* lines 83-99 and 122: the run's values when the metrics are rendered;
\* `saved` tells that the success message of the save button is shown
Metrics(pairs, dt, res, save) ==
    [status |-> "metrics", pairs |-> pairs, dt_total |-> dt,
     v0 |-> res.v0, energy |-> res.joules, v_avg |-> res.v_avg,
     saved |-> save]

\* dt_total = t_impact - t_shot
DeltaT(pair) == Sub(pair[2], pair[1])

\* lines 72-124: what a run computes and renders for the widget values it
\* sees (the singleton set binds the pair once)
Render(file, d, m, t, save) ==
    IF ~file.present THEN Blank("idle")
    ELSE IF Len(frames_to_time(file.onsets)) >= 2
    THEN CHOOSE o \in
           {Metrics(pairs, DeltaT(pairs[1]),
                    Solve(DeltaT(pairs[1]), DistM(d), FromInt(t), MassG(m)),
                    save) :
              pairs \in {ShotPairs(frames_to_time(file.onsets))}} : TRUE
    ELSE Blank("error")

\* lines 112-121: the save button appends a row when it is pressed in a
\* run that rendered the metrics
Saved(ss, r, save, now, d, m) ==
    IF r.status = "metrics" /\ save
    THEN [ss EXCEPT !.history = Append(@,
             HistoryRow(now, d, m,
                        [v0 |-> r.v0, joules |-> r.energy, v_avg |-> r.v_avg]))]
    ELSE ss

\* lines 127-151: the clear button exists when the history is not empty
Cleared(ss, clear) ==
    IF ss.history # <<>> /\ clear
    THEN [ss EXCEPT !.history = ClearedHistory(@)]
    ELSE ss

\* One execution of the script (lines 53-151) for the widget values of the
\* event: `save` and `clear` tell which button, if any, was pressed (`ev`
\* names it; the download button's value is not read by the script).  The
\* clear button ends in st.rerun(), a second execution with no button
\* pressed, which renders the same widgets over the emptied history.
Script(file, d, m, t, save, clear, now, ev) ==
    \E r \in {Render(file, d, m, t, save)} :
        /\ session_state' =
               Cleared(Saved(EnsureHistory(session_state), r, save, now, d, m), clear)
        /\ uploaded_file' = file
        /\ dist' = d
        /\ massa' = m
        /\ suhu' = t
        /\ out' = r
        /\ pressed' = ev

Loaded == out.status # "unloaded"

\* a new session: no session state, the widgets at their defaults
Init ==
    /\ session_state = [k \in {} |-> <<>>]
    /\ uploaded_file = NoFile
    /\ dist = 20
    /\ massa = 20
    /\ suhu = 28
    /\ out = Blank("unloaded")
    /\ pressed = "none"

\* the first run of the script in the session
PageLoad ==
    /\ ~Loaded
    /\ Script(uploaded_file, dist, massa, suhu, FALSE, FALSE, "", "none")

Upload(rec) ==
    /\ Loaded
    /\ SpacedOnsets(rec)
    /\ Script(File(rec), dist, massa, suhu, FALSE, FALSE, "", "none")

RemoveFile ==
    /\ Loaded
    /\ uploaded_file.present
    /\ Script(NoFile, dist, massa, suhu, FALSE, FALSE, "", "none")

SetDist(d) ==
    /\ Loaded
    /\ LegalDist(d)
    /\ Script(uploaded_file, d, massa, suhu, FALSE, FALSE, "", "none")

SetMassa(m) ==
    /\ Loaded
    /\ m \in MassChoices
    /\ Script(uploaded_file, dist, m, suhu, FALSE, FALSE, "", "none")

SetSuhu(t) ==
    /\ Loaded
    /\ LegalTemp(t)
    /\ Script(uploaded_file, dist, massa, t, FALSE, FALSE, "", "none")

\* the save button exists only in a run that rendered the metrics
PressSave(now) ==
    /\ out.status = "metrics"
    /\ Len(session_state.history) < MaxHistory
    /\ Script(uploaded_file, dist, massa, suhu, TRUE, FALSE, now, "save")

\* the history section, with its two buttons, exists only when the history
\* is not empty
PressClear ==
    /\ Loaded
    /\ session_state.history # <<>>
    /\ Script(uploaded_file, dist, massa, suhu, FALSE, TRUE, "", "clear")

PressDownload ==
    /\ Loaded
    /\ session_state.history # <<>>
    /\ Script(uploaded_file, dist, massa, suhu, FALSE, FALSE, "", "none")

Next ==
    \/ PageLoad
    \/ \E rec \in Recordings : Upload(rec)
    \/ RemoveFile
    \/ \E d \in Dists : SetDist(d)
    \/ \E m \in Masses : SetMassa(m)
    \/ \E t \in Temps : SetSuhu(t)
    \/ \E now \in Clock : PressSave(now)
    \/ PressClear
    \/ PressDownload

Spec == Init /\ [][Next]_vars

\* The solver model: the same script, driven over a wide range of
\* recordings and sidebar values, with the history left alone.
SolverNext ==
    \/ PageLoad
    \/ \E rec \in SolverRecordings : Upload(rec)
    \/ \E d \in SolverDists : SetDist(d)
    \/ \E m \in MassChoices : SetMassa(m)
    \/ \E t \in SolverTemps : SetSuhu(t)

SolverSpec == Init /\ [][SolverNext]_vars

----------------------------------------------------------------------------
(* The session aggregator's summary                                        *)

\* the history of a session state, empty before the first run creates it
HistoryOf(ss) == IF "history" \in DOMAIN ss THEN ss.history ELSE <<>>

history == HistoryOf(session_state)

RECURSIVE SumV0(_)
\* the sum of the muzzle velocities of the rows
SumV0(h) == IF h = <<>> THEN Zero ELSE Add(h[1].v0, SumV0(Tail(h)))

RECURSIVE SumSqDev(_, _)
\* the sum of the squared deviations of the muzzle velocities from mean
SumSqDev(h, mean) ==
    IF h = <<>> THEN Zero
    ELSE Add(Pow2(Sub(h[1].v0, mean)), SumSqDev(Tail(h), mean))

\* summary(): the count, the mean and the standard deviation of the muzzle
\* velocities of the history; the deviation of fewer than two rows is 0
summary(h) ==
    [count  |-> Len(h),
     mean   |-> IF h = <<>> THEN Zero ELSE Div(SumV0(h), FromInt(Len(h))),
     stddev |-> IF Len(h) <= 1 THEN Zero
                ELSE CHOOSE sd \in
                       {IF var.m = 0 \/ var.inf THEN var ELSE Sqrt(var) :
                          var \in {Div(SumSqDev(h, Div(SumV0(h), FromInt(Len(h)))),
                                       FromInt(Len(h) - 1))}} : TRUE]

----------------------------------------------------------------------------
(* Claims                                                                  *)

\* the run returned the failure sentinel (0, 0, 0)
IsSentinel(o) == o.v0 = Zero /\ o.energy = Zero /\ o.v_avg = Zero

\* a history row holds the sentinel result
RowIsSentinel(row) == row.v0 = Zero /\ row.Energy = Zero /\ row.v_avg = Zero

\* the solver was called in the last run, with out.dt_total
SolverCalled == out.status = "metrics"

\* distance / v_s for the sidebar values of the state
SoundReturn == Div(DistM(dist), SpeedOfSound(FromInt(suhu)))

\* a <= b
Le(a, b) == ~Lt(b, a)

\* C1: no row of the session history holds the sentinel result (0, 0, 0):
\* every stored record comes from a valid solver result.
C1_NoSentinelStored ==
    \A i \in 1..Len(history) : ~RowIsSentinel(history[i])

C3_AllPositionalPairs ==
    uploaded_file.present =>
        /\ Len(out.pairs) = Len(uploaded_file.onsets) \div 2
        /\ out.pairs = PositionalPairs(frames_to_time(uploaded_file.onsets))

\* C3 amended: for N onsets the pairing step yields exactly one candidate,
\* (events[0], events[1]), when N >= 2 and none when N < 2; the events after
\* the second are discarded.
C3_FirstPairOnly ==
    uploaded_file.present =>
        LET times == frames_to_time(uploaded_file.onsets)
        IN  /\ Len(out.pairs) = (IF Len(times) >= 2 THEN 1 ELSE 0)
            /\ Len(times) >= 2 => out.pairs[1] = <<times[1], times[2]>>

\* C3 witness: a recording with four onsets gave one candidate.
C3_Witness ==
    uploaded_file.present /\ Len(uploaded_file.onsets) = 4 /\ Len(out.pairs) = 1

\* C4: a run with fewer than two onsets reports the insufficient-onsets
\* error, and a run with two onsets whose only candidate failed reports
\* neither that error nor a measurement.
C4_DistinctFailureStatuses ==
    uploaded_file.present =>
        /\ Len(uploaded_file.onsets) < 2 => out.status = "error"
        /\ (Len(uploaded_file.onsets) >= 2 /\ IsSentinel(out))
               => out.status \notin {"error", "metrics"}

\* C5: the history is created empty, once; a step other than the clear
\* button leaves the rows it holds in place and in order, adding at most
\* one row at the end; only the clear button shortens it.
C5_AppendOnly ==
    [][/\ "history" \notin DOMAIN session_state
            => HistoryOf(session_state') = <<>>
       /\ "history" \in DOMAIN session_state
            => /\ "history" \in DOMAIN session_state'
               /\ \/ pressed' = "clear"
                  \/ HistoryOf(session_state') = history
                  \/ /\ Len(HistoryOf(session_state')) = Len(history) + 1
                     /\ SubSeq(HistoryOf(session_state'), 1, Len(history)) = history]_vars

\* C5 witness: a second row was appended behind the first.
C5_Witness == Len(history) = 2 /\ pressed = "save"

LaterValid ==
    {res \in {Solve(DeltaT(ShotPairs(frames_to_time(rec))[1]),
                    DistM(dist), FromInt(suhu), MassG(massa)) :
                rec \in {r \in SolverRecordings :
                           /\ Len(r) >= 2
                           /\ Lt(out.dt_total, DeltaT(ShotPairs(frames_to_time(r))[1]))}} :
       res # Sentinel}

\* C7 as stated: with distance, temperature and mass fixed, a larger
\* delta_t_total with a valid result gives a strictly smaller muzzle
\* velocity.
C7_StrictlyDecreasing ==
    (SolverCalled /\ ~IsSentinel(out)) =>
        \A res \in LaterValid : Lt(res.v0, out.v0)

\* C7 amended: with distance, temperature and mass fixed, a larger
\* delta_t_total with a valid result never gives a larger muzzle velocity
\* (two delta_t that differ by a rounding error, or two velocities that
\* both overflow to inf, give equal muzzle velocities).
C7_NonIncreasing ==
    (SolverCalled /\ ~IsSentinel(out)) =>
        \A res \in LaterValid : Le(res.v0, out.v0)

\* C7 witness: a valid result, and a larger delta_t_total whose valid
\* result has a strictly smaller muzzle velocity.
C7_Witness ==
    /\ SolverCalled
    /\ ~IsSentinel(out)
    /\ \E res \in LaterValid : Lt(res.v0, out.v0)

\* C8: the solver is only called with 0.02 <= delta_t <= 1.0.
C8_PlausibleWindow ==
    SolverCalled =>
        /\ Le(Lit(2, 100), out.dt_total)
        /\ Le(out.dt_total, FromInt(1))

\* C9: a run with no uploaded file, with fewer than two onsets or with a
\* failed solver result appends nothing to the history.
C9_AppendOnlyOnSuccess ==
    [][(/\ "history" \in DOMAIN session_state
        /\ pressed' # "clear"
        /\ \/ ~uploaded_file'.present
           \/ Len(uploaded_file'.onsets) < 2
           \/ IsSentinel(out'))
          => HistoryOf(session_state') = history]_vars

\* C10: the solver returns (0, 0, 0) or three strictly positive values; the
\* muzzle velocity is 0 exactly when the result is the sentinel, and the
\* result is the sentinel exactly when t_flight <= 0 or the computation
\* overflowed.
C10_AllOrNothing ==
    SolverCalled =>
        \A t_flight \in {FlightTime(out.dt_total, DistM(dist), FromInt(suhu))} :
            /\ \/ IsSentinel(out)
               \/ GtZero(out.v0) /\ GtZero(out.energy) /\ GtZero(out.v_avg)
            /\ out.v0 = Zero <=> IsSentinel(out)
            /\ IsSentinel(out) <=>
                   \/ LeZero(t_flight)
                   \/ Raises(DistM(dist), MassKg(MassG(massa)), t_flight)

\* C10 witness: a positive flight time whose computation overflowed gave
\* the sentinel.
C10_Witness ==
    /\ SolverCalled
    /\ GtZero(FlightTime(out.dt_total, DistM(dist), FromInt(suhu)))
    /\ IsSentinel(out)

====
